---- MODULE Spec2Model ----
(***************************************************************************)
(* The portfolio ledger of src/StockTracker.py (class                      *)
(* StockPortfolioTracker): cash, positions and the transaction log held    *)
(* in self.portfolio, the snapshot file portfolio.json, and the report of  *)
(* show_portfolio.                                                         *)
(*                                                                         *)
(* Numbers.  Every quantity of the program (cash, shares, prices,          *)
(* amounts) is a Python float, an IEEE 754 binary64.  The model computes   *)
(* with the same values: a float is its sign, its 53-bit significand and   *)
(* its binary exponent, and +, -, *, / round the exact result to the       *)
(* nearest float, ties to even, as the hardware does.  The two zeros are   *)
(* kept apart and compare equal.  Past the largest float a result is inf,  *)
(* below the smallest normal one it is rounded to the multiples of         *)
(* 2^-1074 (gradual underflow); inf - inf, inf * 0 and inf / inf are nan,  *)
(* which compares unequal to everything.                                   *)
(*                                                                         *)
(* Dates.  The "date" / "purchase_date" stamps (lines 65, 84, 129, 139,    *)
(* 193) hold the wall clock at the time of the call.  No ledger operation  *)
(* reads them back; they are left out of the records.                      *)
(***************************************************************************)
EXTENDS Integers, Sequences, FiniteSets, TLC

VARIABLES
    portfolio,  \* self.portfolio: [stocks, transactions, cash]
    file,       \* portfolio.json: <<>> when absent, <<document>> otherwise
    last        \* the most recent call: its name and its outcome

vars == <<portfolio, file, last>>

---------------------------------------------------------------------------
(* Bounds                                                                  *)

\* Longest transaction log explored under Spec / ScenarioSpec.
MaxTx == 3
ScenarioMaxTx == 4

---------------------------------------------------------------------------
(* Natural numbers of any size: the sequence of their digits in base      *)
(* 2^LimbBits, lowest first, with no leading zero digit (0 is <<>>).       *)

LimbBits == 15
Base == 2 ^ LimbBits

RECURSIVE Strip(_)
Strip(a) ==
    IF a = <<>> THEN <<>>
    ELSE IF a[Len(a)] = 0 THEN Strip(SubSeq(a, 1, Len(a) - 1))
    ELSE a

RECURSIVE BFromInt(_)
BFromInt(n) == IF n = 0 THEN <<>> ELSE <<n % Base>> \o BFromInt(n \div Base)

RECURSIVE BAddC(_, _, _)
BAddC(a, b, c) ==
    IF a = <<>> /\ b = <<>> THEN (IF c = 0 THEN <<>> ELSE <<c>>)
    ELSE LET x == IF a = <<>> THEN 0 ELSE a[1]
             y == IF b = <<>> THEN 0 ELSE b[1]
             t == x + y + c
         IN  <<t % Base>> \o BAddC(IF a = <<>> THEN <<>> ELSE Tail(a),
                                   IF b = <<>> THEN <<>> ELSE Tail(b),
                                   t \div Base)

BAdd(a, b) == BAddC(a, b, 0)

\* a - b for a >= b.
RECURSIVE BSubB(_, _, _)
BSubB(a, b, borrow) ==
    IF a = <<>> THEN <<>>
    ELSE LET y == IF b = <<>> THEN 0 ELSE b[1]
             t == a[1] - y - borrow
         IN  <<IF t < 0 THEN t + Base ELSE t>>
             \o BSubB(Tail(a), IF b = <<>> THEN <<>> ELSE Tail(b),
                      IF t < 0 THEN 1 ELSE 0)

BSub(a, b) == Strip(BSubB(a, b, 0))

\* -1, 0, 1 as a < b, a = b, a > b, looking at digit i and below.
RECURSIVE BCmpFrom(_, _, _)
BCmpFrom(a, b, i) ==
    IF i = 0 THEN 0
    ELSE IF a[i] > b[i] THEN 1
    ELSE IF a[i] < b[i] THEN -1
    ELSE BCmpFrom(a, b, i - 1)

BCmp(a, b) ==
    IF Len(a) > Len(b) THEN 1
    ELSE IF Len(a) < Len(b) THEN -1
    ELSE BCmpFrom(a, b, Len(a))

\* a * k + c for a digit k > 0.
RECURSIVE BMulC(_, _, _)
BMulC(a, k, c) ==
    IF a = <<>> THEN (IF c = 0 THEN <<>> ELSE <<c>>)
    ELSE LET t == a[1] * k + c
         IN  <<t % Base>> \o BMulC(Tail(a), k, t \div Base)

BMulDigit(a, k) == IF k = 0 THEN <<>> ELSE BMulC(a, k, 0)

RECURSIVE BMul(_, _)
BMul(a, b) ==
    IF a = <<>> \/ b = <<>> THEN <<>>
    ELSE LET rest == BMul(Tail(a), b)
         IN  BAdd(BMulDigit(b, a[1]),
                  IF rest = <<>> THEN <<>> ELSE <<0>> \o rest)

\* a * 2^n and floor(a / 2^n).
BShl(a, n) ==
    IF a = <<>> THEN <<>>
    ELSE [i \in 1..(n \div LimbBits) |-> 0] \o BMulDigit(a, 2 ^ (n % LimbBits))

BShr(a, n) ==
    LET k == n \div LimbBits
        r == n % LimbBits
        d == IF k >= Len(a) THEN <<>> ELSE SubSeq(a, k + 1, Len(a))
    IN  Strip([i \in 1..Len(d) |->
                  (d[i] \div (2 ^ r))
                  + (IF i < Len(d)
                     THEN (d[i + 1] % (2 ^ r)) * (2 ^ (LimbBits - r))
                     ELSE 0)])

RECURSIVE DigitBits(_)
DigitBits(x) == IF x = 0 THEN 0 ELSE 1 + DigitBits(x \div 2)

\* The number of bits of a.
BitLen(a) ==
    IF a = <<>> THEN 0 ELSE (Len(a) - 1) * LimbBits + DigitBits(a[Len(a)])

\* Bit i of a (bit 0 is the lowest), and whether any bit below i is set.
BBit(a, i) ==
    LET k == i \div LimbBits + 1
    IN  IF k > Len(a) THEN 0 ELSE (a[k] \div (2 ^ (i % LimbBits))) % 2

BLowSet(a, i) ==
    \E k \in 1..Len(a) :
        \/ k <= i \div LimbBits /\ a[k] # 0
        \/ k = i \div LimbBits + 1 /\ a[k] % (2 ^ (i % LimbBits)) # 0

\* A multiple g of a power of the base with g * D <= N, for N >= D, from
\* the leading digits: lead of N (one digit when N is no longer than D, two
\* otherwise) over the leading digit of D, k digits up.
BGuessAt(est, k) ==
    IF est = 0 THEN <<1>> ELSE [i \in 1..k |-> 0] \o BFromInt(est)

BGuess(N, D) ==
    IF Len(N) = Len(D)
    THEN BGuessAt(N[Len(N)] \div (D[Len(D)] + 1), 0)
    ELSE BGuessAt((N[Len(N)] * Base + N[Len(N) - 1]) \div (D[Len(D)] + 1),
                  Len(N) - Len(D) - 1)

\* Long division: Q + floor(N / D) and the remainder of N / D.  Each step
\* takes from N a multiple g * D that does not exceed it.
RECURSIVE BDivMod(_, _, _)
BDivStep(N, D, Q, g) == BDivMod(BSub(N, BMul(g, D)), D, BAdd(Q, g))

BDivMod(N, D, Q) ==
    IF BCmp(N, D) < 0 THEN [q |-> Q, r |-> N]
    ELSE BDivStep(N, D, Q, BGuess(N, D))

---------------------------------------------------------------------------
(* Python floats                                                           *)

\* The bits of a float's significand, the exponent of the smallest positive
\* float 2^MinExp, and the exponent 2^TopExp that no finite float reaches.
Precision == 53
MinExp == -1074
TopExp == 1024

\* The float of sign s (1 or -1), significand m and exponent e: s * m * 2^e.
\* A normal float has a significand of Precision bits and e >= MinExp; a
\* subnormal one a shorter significand and e = MinExp; zero has m = <<>> and
\* e = 0.  As in the IEEE encoding, the exponent TopExp marks what is not
\* finite: inf with an empty significand, nan with a non-empty one.
Float(s, m, e) == [s |-> s, m |-> m, e |-> e]

Inf(s) == Float(s, <<>>, TopExp)
NaN == Float(1, <<1>>, TopExp)

FIsNaN(a) == a.e = TopExp /\ a.m # <<>>
FIsInf(a) == a.e = TopExp /\ a.m = <<>>
FIsZero(a) == a.e # TopExp /\ a.m = <<>>

\* The float s * m * 2^e of a significand of at most Precision bits on the
\* grid 2^e: zero when nothing is left, inf past the largest float.
Pack(s, m, e) ==
    IF m = <<>> THEN Float(s, <<>>, 0)
    ELSE IF e + Precision > TopExp THEN Inf(s)
    ELSE Float(s, m, e)

\* The same when rounding up may have carried into one bit more.
PackCarry(s, m, e) ==
    IF BitLen(m) > Precision THEN Pack(s, BShr(m, 1), e + 1) ELSE Pack(s, m, e)

\* s * M * 2^E rounded to the grid 2^e, sh = e - E > 0 bits dropped from M
\* leaving q: up when the dropped part is above half, or is half and q is odd.
RoundDrop(s, M, q, sh, e, inexact) ==
    IF /\ BBit(M, sh - 1) = 1
       /\ \/ BLowSet(M, sh - 1)
          \/ inexact
          \/ BBit(q, 0) = 1
    THEN PackCarry(s, BAdd(q, <<1>>), e)
    ELSE Pack(s, q, e)

\* s * M * 2^E rounded to the grid 2^e.
RoundTo(s, M, E, e, inexact) ==
    IF e <= E THEN Pack(s, BShl(M, E - e), e)
    ELSE RoundDrop(s, M, BShr(M, e - E), e - E, e, inexact)

\* The grid of the floats around a value whose highest bit is 2^(top - 1):
\* Precision bits, or those above 2^MinExp when there are fewer.
Grid(top) == IF top - Precision < MinExp THEN MinExp ELSE top - Precision

\* The float nearest to s * M * 2^E, ties to even; inexact says that the
\* exact value lies a little above M * 2^E (a division that left a remainder).
\* The result keeps Precision bits, or those above 2^MinExp when there are
\* fewer (gradual underflow, down to zero); past the largest float it is inf.
Round(s, M, E, inexact) == RoundTo(s, M, E, Grid(E + BitLen(M)), inexact)

\* float(i) of an integer i.
Num(i) == Round(IF i < 0 THEN -1 ELSE 1, BFromInt(IF i < 0 THEN -i ELSE i), 0, FALSE)
Zero == Num(0)

\* Python's None, for a price that was not given / could not be fetched.
None == [s |-> 0, m |-> <<>>, e |-> 0]

\* sa * Ma * 2^e + sb * Mb * 2^e
FAddAligned(sa, Ma, sb, Mb, e) ==
    Round(IF sa = sb \/ BCmp(Ma, Mb) = 1 THEN sa
          ELSE IF BCmp(Ma, Mb) = 0 THEN 1
          ELSE sb,
          IF sa = sb THEN BAdd(Ma, Mb)
          ELSE IF BCmp(Ma, Mb) >= 0 THEN BSub(Ma, Mb)
          ELSE BSub(Mb, Ma),
          e, FALSE)

\* big + small for finite non-zero floats with big.e >= small.e.  When small
\* lies below the bits that round big, it only tips a tie.
FAddOrdered(big, small) ==
    IF small.e + BitLen(small.m) < big.e - 3
    THEN Round(big.s,
               IF big.s = small.s THEN BShl(big.m, 3)
               ELSE BSub(BShl(big.m, 3), <<1>>),
               big.e - 3, TRUE)
    ELSE FAddAligned(big.s, BShl(big.m, big.e - small.e),
                     small.s, small.m, small.e)

\* a + b
FAdd(a, b) ==
    IF FIsNaN(a) \/ FIsNaN(b) THEN NaN
    ELSE IF FIsInf(a) THEN (IF FIsInf(b) /\ b.s # a.s THEN NaN ELSE a)
    ELSE IF FIsInf(b) THEN b
    ELSE IF FIsZero(a) /\ FIsZero(b)
    THEN Float(IF a.s = -1 /\ b.s = -1 THEN -1 ELSE 1, <<>>, 0)
    ELSE IF FIsZero(a) THEN b
    ELSE IF FIsZero(b) THEN a
    ELSE
    IF a.e >= b.e THEN FAddOrdered(a, b) ELSE FAddOrdered(b, a)

\* a - b
FSub(a, b) == FAdd(a, [b EXCEPT !.s = -@])

\* a * b
FMul(a, b) ==
    IF FIsNaN(a) \/ FIsNaN(b) THEN NaN
    ELSE IF FIsInf(a) \/ FIsInf(b)
    THEN (IF FIsZero(a) \/ FIsZero(b) THEN NaN ELSE Inf(a.s * b.s))
    ELSE IF FIsZero(a) \/ FIsZero(b) THEN Float(a.s * b.s, <<>>, 0)
    ELSE Round(a.s * b.s, BMul(a.m, b.m), a.e + b.e, FALSE)

\* a / b for b # 0; the callers raise ZeroDivisionError themselves when b = 0.
\* The significands are first brought to Precision bits each, so that the
\* quotient has the bits its rounding needs.
FDiv(a, b) ==
    IF FIsNaN(a) \/ FIsNaN(b) THEN NaN
    ELSE IF FIsInf(a) THEN (IF FIsInf(b) THEN NaN ELSE Inf(a.s * b.s))
    ELSE IF FIsInf(b) \/ FIsZero(a) THEN Float(a.s * b.s, <<>>, 0)
    ELSE
    LET bits == Precision + 3
        pad == (LimbBits - 1) - ((Precision - 1) % LimbBits)
        na == Precision - BitLen(a.m)
        nb == Precision - BitLen(b.m)
        d == BDivMod(BShl(a.m, na + bits + pad), BShl(b.m, nb + pad), <<>>)
    IN  Round(a.s * b.s, d.q, (a.e - na) - (b.e - nb) - bits, d.r # <<>>)

\* float("n/d") of the decimal fraction n/d, d a power of ten: the float
\* nearest to it, which is what the correctly rounded quotient is as well.
Dec(n, d) == FDiv(Num(n), Num(d))

\* a == b
FEq(a, b) ==
    /\ ~FIsNaN(a) /\ ~FIsNaN(b)
    /\ (FIsZero(a) /\ FIsZero(b)) \/ a = b

\* a > b
FGt(a, b) ==
    LET sa == IF FIsZero(a) THEN 0 ELSE a.s
        sb == IF FIsZero(b) THEN 0 ELSE b.s
        above(x, y) == x.e > y.e \/ (x.e = y.e /\ BCmp(x.m, y.m) = 1)
    IN  IF FIsNaN(a) \/ FIsNaN(b) THEN FALSE
        ELSE IF sa # sb THEN sa > sb
        ELSE IF sa = 0 THEN FALSE
        ELSE IF sa = 1 THEN above(a, b)
        ELSE above(b, a)

---------------------------------------------------------------------------
(* Persistence: json.dump / json.load of the portfolio dict                *)

\* JSON values, as the text of the file spells them.
JNum(r) == [tag |-> "number", s |-> r.s, m |-> r.m, e |-> r.e]
JStr(s) == [tag |-> "string", s |-> s]
JArr(items) == [tag |-> "array", items |-> items]
\* members: the sequence of <<key, value>> pairs, in the dict's order.
JObj(members) == [tag |-> "object", members |-> members]

dump_stock(s) ==
    JObj(<< <<"symbol", JStr(s.symbol)>>,
            <<"shares", JNum(s.shares)>>,
            <<"avg_price", JNum(s.avg_price)>> >>)

dump_transaction(t) ==
    IF t.type \in {"buy", "sell"}
    THEN JObj(<< <<"type", JStr(t.type)>>,
                 <<"symbol", JStr(t.symbol)>>,
                 <<"shares", JNum(t.shares)>>,
                 <<"price", JNum(t.price)>>,
                 <<"total", JNum(t.total)>> >>)
    ELSE JObj(<< <<"type", JStr(t.type)>>,
                 <<"amount", JNum(t.amount)>> >>)

json_dump(p) ==
    JObj(<< <<"stocks",
              JArr([i \in 1..Len(p.stocks) |-> dump_stock(p.stocks[i])])>>,
            <<"transactions",
              JArr([i \in 1..Len(p.transactions) |->
                        dump_transaction(p.transactions[i])])>>,
            <<"cash", JNum(p.cash)>> >>)

\* The value a key of a JSON object decodes to: the last member with that key.
RECURSIVE member_value(_, _, _)
member_value(members, key, i) ==
    IF members[i][1] = key THEN members[i][2]
    ELSE member_value(members, key, i - 1)

RECURSIVE json_load(_)
json_load(j) ==
    CASE j.tag = "number" -> Float(j.s, j.m, j.e)
      [] j.tag = "string" -> j.s
      [] j.tag = "array"  -> [i \in 1..Len(j.items) |-> json_load(j.items[i])]
      [] j.tag = "object" ->
            [k \in {j.members[i][1] : i \in 1..Len(j.members)} |->
                json_load(member_value(j.members, k, Len(j.members)))]

EmptyPortfolio == [stocks |-> <<>>, transactions |-> <<>>, cash |-> Zero]

\* _load_portfolio: the snapshot if the file exists, else the empty portfolio.
load_portfolio(f) ==
    IF f # <<>> THEN json_load(f[1]) ELSE EmptyPortfolio

\* _save_portfolio: the file after the whole dict is written over it.
save_portfolio(p) == <<json_dump(p)>>

---------------------------------------------------------------------------
(* The ledger operations, as functions of the portfolio and the arguments. *)
(* Each yields the portfolio after the call, what the call returns         *)
(* ("None", "True", "False", or the name of the exception it raises) and   *)
(* whether it reached self._save_portfolio().                              *)

Outcome(p, ret, save) == [portfolio |-> p, ret |-> ret, save |-> save]

\* The record put at the head of the log instead of its end.
log_transaction_at_head(transactions, t) == <<t>> \o transactions

\* self.portfolio["transactions"].append(transaction)
log_transaction(transactions, t) == Append(transactions, t)

\* The test written the wrong way round: it refuses what can be paid.
insufficient_funds_flipped(needed, cash) == FGt(cash, needed)

\* The test `amount > self.portfolio["cash"]` of withdraw_cash and buy_stock.
insufficient_funds(needed, cash) == FGt(needed, cash)

\* add_cash without its self._save_portfolio().
add_cash_unsaved(p, amount) ==
    Outcome([p EXCEPT !.cash = FAdd(@, amount),
                      !.transactions =
                          log_transaction(@, [type |-> "cash_deposit",
                                              amount |-> amount])],
            "None", FALSE)

add_cash(p, amount) ==
    Outcome([p EXCEPT !.cash = FAdd(@, amount),
                      !.transactions =
                          log_transaction(@, [type |-> "cash_deposit",
                                              amount |-> amount])],
            "None", TRUE)

withdraw_cash(p, amount) ==
    IF insufficient_funds(amount, p.cash)
    THEN Outcome(p, "False", FALSE)
    ELSE Outcome([p EXCEPT !.cash = FSub(@, amount),
                           !.transactions =
                               log_transaction(@, [type |-> "cash_withdrawal",
                                                   amount |-> amount])],
                 "True", TRUE)

\* The loops of buy_stock and sell_stock: the index of the first position
\* with this symbol, 0 when there is none.
RECURSIVE find_stock(_, _, _)
find_stock(stocks, symbol, i) ==
    IF i > Len(stocks) THEN 0
    ELSE IF stocks[i].symbol = symbol THEN i
    ELSE find_stock(stocks, symbol, i + 1)

\* total_cost as buy_stock recomputes it for a position already held.
merged_cost(existing, shares, price) ==
    FAdd(FMul(existing.shares, existing.avg_price), FMul(shares, price))

\* The merge with the plain mean of the two prices for avg_price.
merged_position_plain_mean(existing, shares, price) ==
    [existing EXCEPT
        !.avg_price = FDiv(FAdd(existing.avg_price, price), Num(2)),
        !.shares = FAdd(existing.shares, shares)]

\* The position after a buy is merged into it (total_shares # 0).
merged_position(existing, shares, price) ==
    LET total_shares == FAdd(existing.shares, shares)
    IN  [existing EXCEPT
            !.avg_price = FDiv(merged_cost(existing, shares, price), total_shares),
            !.shares = total_shares]

\* price: the argument (None when omitted, as the menu does);
\* quote: what get_stock_price answers when it is asked.
buy_stock(p, symbol, shares, price, quote) ==
    LET px == IF price = None THEN quote ELSE price
    IN  IF px = None THEN Outcome(p, "False", FALSE)
        ELSE
        LET total_cost == FMul(px, shares)
        IN  IF insufficient_funds(total_cost, p.cash)
            THEN Outcome(p, "False", FALSE)
            ELSE
            LET paid == [p EXCEPT !.cash = FSub(@, total_cost)]
                i == find_stock(p.stocks, symbol, 1)
            IN  IF i # 0
                THEN IF FIsZero(FAdd(p.stocks[i].shares, shares))
                     THEN \* line 121 divides by total_shares = 0
                          Outcome(paid, "ZeroDivisionError", FALSE)
                     ELSE Outcome(
                            [paid EXCEPT
                               !.stocks[i] = merged_position(@, shares, px),
                               !.transactions =
                                   log_transaction(@,
                                       [type |-> "buy", symbol |-> symbol,
                                        shares |-> shares, price |-> px,
                                        total |-> merged_cost(p.stocks[i],
                                                              shares, px)])],
                            "True", TRUE)
                ELSE Outcome(
                       [paid EXCEPT
                          !.stocks = Append(@, [symbol |-> symbol,
                                                shares |-> shares,
                                                avg_price |-> px]),
                          !.transactions =
                              log_transaction(@,
                                  [type |-> "buy", symbol |-> symbol,
                                   shares |-> shares, price |-> px,
                                   total |-> total_cost])],
                       "True", TRUE)

\* The proceeds of one share, whatever the quantity.
total_proceeds_one_share(price, shares) == price

\* price * shares of sell_stock.
total_proceeds(price, shares) == FMul(price, shares)

\* The sale that never removes the position.
stocks_after_sale_kept(stocks, i, shares) ==
    [stocks EXCEPT ![i].shares = FSub(@, shares)]

\* The positions after `shares` of position i are sold.
stocks_after_sale(stocks, i, shares) ==
    IF FEq(shares, stocks[i].shares)
    THEN [k \in 1..(Len(stocks) - 1) |->
              IF k < i THEN stocks[k] ELSE stocks[k + 1]]
    ELSE [stocks EXCEPT ![i].shares = FSub(@, shares)]

sell_stock(p, symbol, shares, price, quote) ==
    LET i == find_stock(p.stocks, symbol, 1)
    IN  IF i = 0 THEN Outcome(p, "False", FALSE)
        ELSE IF FGt(shares, p.stocks[i].shares) THEN Outcome(p, "False", FALSE)
        ELSE
        LET px == IF price = None THEN quote ELSE price
        IN  IF px = None THEN Outcome(p, "False", FALSE)
            ELSE Outcome(
                   [p EXCEPT
                      !.cash = FAdd(@, total_proceeds(px, shares)),
                      !.stocks = stocks_after_sale(@, i, shares),
                      !.transactions =
                          log_transaction(@,
                              [type |-> "sell", symbol |-> symbol,
                               shares |-> shares, price |-> px,
                               total |-> total_proceeds(px, shares)])],
                   "True", TRUE)

---------------------------------------------------------------------------
(* The valuation report                                                    *)

\* The loop of show_portfolio from position i on; quotes[symbol] is what
\* get_stock_price answers for that position.
RECURSIVE show_rows(_, _, _, _, _)
show_rows(stocks, quotes, i, total_value, total_cost) ==
    IF i > Len(stocks)
    THEN [ret |-> "None", total_value |-> total_value, total_cost |-> total_cost]
    ELSE
    LET shares == stocks[i].shares
        cost_basis == FMul(shares, stocks[i].avg_price)
        current_price == quotes[stocks[i].symbol]
    IN  IF current_price = None
        THEN \* line 220: shares * None
             [ret |-> "TypeError", total_value |-> total_value,
              total_cost |-> total_cost]
        ELSE IF FIsZero(cost_basis)
        THEN \* line 224: gain_loss / cost_basis
             [ret |-> "ZeroDivisionError", total_value |-> total_value,
              total_cost |-> total_cost]
        ELSE show_rows(stocks, quotes, i + 1,
                       FAdd(total_value, FMul(shares, current_price)),
                       FAdd(total_cost, cost_basis))

\* total_gain_loss_pct of the summary.
total_gain_loss_pct(total_value, total_cost) ==
    IF FGt(total_cost, Zero)
    THEN FMul(FDiv(FSub(total_value, total_cost), total_cost), Num(100))
    ELSE Zero

\* What show_portfolio returns or raises, and the summary it prints
\* (<<>> when it prints none).
show_portfolio(p, quotes) ==
    IF p.stocks = <<>> THEN [ret |-> "None", out |-> <<>>]
    ELSE
    LET r == show_rows(p.stocks, quotes, 1, Zero, Zero)
    IN  IF r.ret # "None" THEN [ret |-> r.ret, out |-> <<>>]
        ELSE [ret |-> "None",
              out |-> << [total_value |-> r.total_value,
                          total_with_cash |-> FAdd(r.total_value, p.cash),
                          total_cost |-> r.total_cost,
                          total_gain_loss |-> FSub(r.total_value, r.total_cost),
                          total_gain_loss_pct |->
                              total_gain_loss_pct(r.total_value, r.total_cost)] >>]

---------------------------------------------------------------------------
(* Inputs                                                                  *)

Symbols == {"AAPL"}
Amounts == {Num(-1), Dec(1, 10), Num(2)}
Shares == {Num(-1), Num(1), Num(2)}
Prices == {Num(0), Num(1)}

ScenarioSymbols == {"AAPL", "MSFT"}
ScenarioAmounts == {Num(1000)}
ScenarioBuyShares == {Num(2), Num(5)}
ScenarioSellShares == {Num(2), Num(4)}
ScenarioBuyPrices == {Num(100), Num(200)}
ScenarioSellPrices == {Num(150)}
ScenarioQuotes == {Num(150)}

---------------------------------------------------------------------------
(* The program                                                             *)

Call(op, ret, out) == [op |-> op, ret |-> ret, out |-> out]

\* An exception no caller catches (main catches ValueError only) ends the
\* process.
Crashed == last.ret \in {"ZeroDivisionError", "TypeError"}

\* __init__: self.portfolio = self._load_portfolio(), with no file yet.
Init ==
    /\ file = <<>>
    /\ portfolio = load_portfolio(<<>>)
    /\ last = Call("__init__", "None", <<>>)

\* A ledger call, with its save when it reaches one.
Ledger(op, r) ==
    /\ ~Crashed
    /\ portfolio' = r.portfolio
    /\ file' = IF r.save THEN save_portfolio(r.portfolio) ELSE file
    /\ last' = Call(op, r.ret, <<>>)

AddCash(amount) == Ledger("add_cash", add_cash(portfolio, amount))

WithdrawCash(amount) == Ledger("withdraw_cash", withdraw_cash(portfolio, amount))

BuyStock(symbol, shares, price, quote) ==
    Ledger("buy_stock", buy_stock(portfolio, symbol, shares, price, quote))

SellStock(symbol, shares, price, quote) ==
    Ledger("sell_stock", sell_stock(portfolio, symbol, shares, price, quote))

ShowPortfolio(quotes) ==
    /\ ~Crashed
    /\ LET r == show_portfolio(portfolio, quotes)
       IN  last' = Call("show_portfolio", r.ret, r.out)
    /\ UNCHANGED <<portfolio, file>>

\* The program is run again: a new tracker loads the snapshot.
Restart ==
    /\ portfolio' = load_portfolio(file)
    /\ last' = Call("__init__", "None", <<>>)
    /\ UNCHANGED file

\* The explored logs are bounded: no ledger call once the log holds n records.
Within(n) == Len(portfolio.transactions) < n

\* The quotes a trade may meet: the price is looked up only when none is given.
Quotes(price) == IF price = None THEN Prices \cup {None} ELSE {None}

Next ==
    \/ \E amount \in Amounts : Within(MaxTx) /\ AddCash(amount)
    \/ \E amount \in Amounts : Within(MaxTx) /\ WithdrawCash(amount)
    \/ \E symbol \in Symbols, shares \in Shares,
          price \in Prices \cup {None} : \E quote \in Quotes(price) :
          Within(MaxTx) /\ BuyStock(symbol, shares, price, quote)
    \/ \E symbol \in Symbols, shares \in Shares,
          price \in Prices \cup {None} : \E quote \in Quotes(price) :
          Within(MaxTx) /\ SellStock(symbol, shares, price, quote)
    \/ \E quotes \in [Symbols -> Prices \cup {None}] : ShowPortfolio(quotes)
    \/ Restart

Spec == Init /\ [][Next]_vars

\* The same program driven with valid arguments only (positive amounts and
\* share counts, explicit prices), at the magnitudes of the spec's scenario.
ScenarioNext ==
    \/ \E amount \in ScenarioAmounts : Within(ScenarioMaxTx) /\ AddCash(amount)
    \/ \E amount \in ScenarioAmounts : Within(ScenarioMaxTx) /\ WithdrawCash(amount)
    \/ \E symbol \in ScenarioSymbols, shares \in ScenarioBuyShares,
          price \in ScenarioBuyPrices :
          Within(ScenarioMaxTx) /\ BuyStock(symbol, shares, price, None)
    \/ \E symbol \in ScenarioSymbols, shares \in ScenarioSellShares,
          price \in ScenarioSellPrices :
          Within(ScenarioMaxTx) /\ SellStock(symbol, shares, price, None)
    \/ \E quotes \in [ScenarioSymbols -> ScenarioQuotes] : ShowPortfolio(quotes)
    \/ Restart

ScenarioSpec == Init /\ [][ScenarioNext]_vars

---------------------------------------------------------------------------
(* Claims                                                                  *)

\* a >= b
FGeq(a, b) == FGt(a, b) \/ FEq(a, b)

Position(symbol) == portfolio.stocks[find_stock(portfolio.stocks, symbol, 1)]
Held(symbol) == find_stock(portfolio.stocks, symbol, 1) # 0
Resolved(price, quote) == IF price = None THEN quote ELSE price
Rejected == last'.ret = "False" /\ portfolio' = portfolio /\ file' = file

\* C2: a withdrawal of more than the cash, a buy costing more than the cash,
\* a sell of a symbol not held and a sell of more shares than held each
\* return False and leave cash, positions, transactions (and the snapshot)
\* exactly as they were.
C2_RejectedUnchanged ==
    [][ \/ Rejected
        \/ /\ last'.op = "withdraw_cash"
              => \A amount \in Amounts :
                    ~(FGt(amount, portfolio.cash) /\ WithdrawCash(amount))
           /\ last'.op = "buy_stock"
              => \A symbol \in Symbols, shares \in Shares,
                    price \in Prices \cup {None} : \A quote \in Quotes(price) :
                    ~( /\ Resolved(price, quote) # None
                       /\ FGt(FMul(Resolved(price, quote), shares), portfolio.cash)
                       /\ BuyStock(symbol, shares, price, quote) )
           /\ last'.op = "sell_stock"
              => \A symbol \in Symbols, shares \in Shares,
                    price \in Prices \cup {None} : \A quote \in Quotes(price) :
                    ~( /\ \/ ~Held(symbol)
                          \/ FGt(shares, Position(symbol).shares)
                       /\ SellStock(symbol, shares, price, quote) )
      ]_vars

\* A sell of more shares than the position holds has just been refused.
C2_Witness ==
    /\ last.op = "sell_stock"
    /\ last.ret = "False"
    /\ Held("AAPL")
    /\ FGt(Position("AAPL").shares, Zero)
    /\ FGt(portfolio.cash, Zero)

\* C1 (as claimed): the cash balance is never negative.
C1_CashNonNegative == FGeq(portfolio.cash, Zero)

\* C6 (as claimed): every position in the portfolio has shares > 0.
C6_SharesPositive ==
    \A i \in 1..Len(portfolio.stocks) : FGt(portfolio.stocks[i].shares, Zero)

\* C7 (as claimed): a deposit or withdrawal of an amount <= 0, and a buy or
\* sell of a share quantity <= 0, leaves cash, positions and transactions
\* unchanged.
C7_NonPositiveRefused ==
    [][ \/ portfolio' = portfolio
        \/ /\ last'.op = "add_cash"
              => \A amount \in Amounts :
                    ~(FGeq(Zero, amount) /\ AddCash(amount))
           /\ last'.op = "withdraw_cash"
              => \A amount \in Amounts :
                    ~(FGeq(Zero, amount) /\ WithdrawCash(amount))
           /\ last'.op = "buy_stock"
              => \A symbol \in Symbols, shares \in Shares,
                    price \in Prices \cup {None} : \A quote \in Quotes(price) :
                    ~(FGeq(Zero, shares) /\ BuyStock(symbol, shares, price, quote))
           /\ last'.op = "sell_stock"
              => \A symbol \in Symbols, shares \in Shares,
                    price \in Prices \cup {None} : \A quote \in Quotes(price) :
                    ~(FGeq(Zero, shares) /\ SellStock(symbol, shares, price, quote))
      ]_vars

\* The sum of shares * avg_price over the positions.
RECURSIVE CostBasis(_, _)
CostBasis(stocks, i) ==
    IF i > Len(stocks) THEN Zero
    ELSE FAdd(FMul(stocks[i].shares, stocks[i].avg_price), CostBasis(stocks, i + 1))

\* C10 (as claimed): when the total cost basis of the portfolio is 0, the
\* valuation report does not fail with a division by zero, and the summary it
\* gives has total_gain_loss_pct = 0.
C10_ZeroCostReport ==
    (last.op = "show_portfolio" /\ FIsZero(CostBasis(portfolio.stocks, 1)))
    => /\ last.ret # "ZeroDivisionError"
       /\ last.out # <<>> => FIsZero(last.out[1].total_gain_loss_pct)

\* The shares of `symbol` the first k records of the log leave in hand:
\* bought less sold.
RECURSIVE NetShares(_, _, _)
NetShares(tx, k, symbol) ==
    IF k = 0 THEN Zero
    ELSE IF tx[k].type = "buy" /\ tx[k].symbol = symbol
         THEN FAdd(NetShares(tx, k - 1, symbol), tx[k].shares)
    ELSE IF tx[k].type = "sell" /\ tx[k].symbol = symbol
         THEN FSub(NetShares(tx, k - 1, symbol), tx[k].shares)
    ELSE NetShares(tx, k - 1, symbol)

IsTrade(t, type, symbol, shares, price) ==
    /\ t.type = type
    /\ t.symbol = symbol
    /\ t.shares = Num(shares)
    /\ t.price = Num(price)

\* Two successive buys of `symbol`, not held before the first, end the log.
TwoBuys(symbol) ==
    LET tx == portfolio.transactions
        n == Len(tx)
    IN  /\ n >= 2
        /\ tx[n].type = "buy" /\ tx[n].symbol = symbol
        /\ tx[n - 1].type = "buy" /\ tx[n - 1].symbol = symbol
        /\ FIsZero(NetShares(tx, n - 2, symbol))

\* s1 * p1 + s2 * p2 and s1 + s2 of the last two records of the log.
PurchaseCost ==
    LET tx == portfolio.transactions
        n == Len(tx)
    IN  FAdd(FMul(tx[n - 1].shares, tx[n - 1].price), FMul(tx[n].shares, tx[n].price))

PurchasedShares ==
    LET tx == portfolio.transactions
        n == Len(tx)
    IN  FAdd(tx[n - 1].shares, tx[n].shares)

\* |a - b|
Distance(a, b) == IF FGt(a, b) THEN FSub(a, b) ELSE FSub(b, a)

\* 2^k
PowerOfTwo(k) == Float(1, Num(1).m, Num(1).e + k)

\* C3 (as claimed): after two successive successful buys (s1 at p1, then s2
\* at p2) of a symbol that was not held before the first, the position has
\* shares = s1 + s2 and avg_price = (s1*p1 + s2*p2) / (s1 + s2), so that
\* avg_price * shares is the sum of the two purchase costs.
C3_WeightedAverageExact ==
    \A symbol \in ScenarioSymbols :
        TwoBuys(symbol)
        => /\ Held(symbol)
           /\ Position(symbol).shares = PurchasedShares
           /\ Position(symbol).avg_price = FDiv(PurchaseCost, PurchasedShares)
           /\ FEq(FMul(Position(symbol).avg_price, Position(symbol).shares),
                  PurchaseCost)

\* Neither zero, subnormal, inf nor nan: a float with all its bits.
FIsNormal(a) == a.e # TopExp /\ BitLen(a.m) = Precision

\* C3 (amended): after two successive successful buys (s1 at p1, then s2 at
\* p2) of a symbol that was not held before the first, the position has
\* shares = s1 + s2 and avg_price = (s1*p1 + s2*p2) / (s1 + s2), the float
\* sum and quotient; avg_price * shares is the sum of the two purchase costs
\* up to the rounding of that quotient and product: within 2^-51 of the sum
\* when the sum, the quotient and the product are normal floats.
C3_WeightedAverage ==
    \A symbol \in ScenarioSymbols :
        TwoBuys(symbol)
        => LET back == FMul(Position(symbol).avg_price, Position(symbol).shares)
           IN  /\ Held(symbol)
               /\ Position(symbol).shares = PurchasedShares
               /\ Position(symbol).avg_price = FDiv(PurchaseCost, PurchasedShares)
               /\ ( /\ FIsNormal(PurchaseCost)
                    /\ FIsNormal(Position(symbol).avg_price)
                    /\ FIsNormal(back) )
                  => FGeq(FMul(PurchaseCost, PowerOfTwo(-51)),
                          Distance(back, PurchaseCost))

\* 2 shares at 200 and then 5 at 100 have been bought: 7 shares at 900/7,
\* a quotient that is rounded, and 7 times it is not 900.
C3_Witness ==
    /\ Len(portfolio.transactions) = 3
    /\ IsTrade(portfolio.transactions[2], "buy", "AAPL", 2, 200)
    /\ IsTrade(portfolio.transactions[3], "buy", "AAPL", 5, 100)
    /\ Held("AAPL")
    /\ Position("AAPL").shares = Num(7)
    /\ Position("AAPL").avg_price = FDiv(Num(900), Num(7))
    /\ FIsNormal(Position("AAPL").avg_price)
    /\ ~FEq(FMul(Position("AAPL").avg_price, Num(7)), Num(900))

\* The record the step has appended to the log: it holds the arguments of
\* the successful call that the step is.
Logged == portfolio'.transactions[Len(portfolio'.transactions)]

\* C4: a successful sell of exactly the shares held removes the position; a
\* successful sell of fewer shares keeps the position, with the same
\* avg_price and with shares lowered by the quantity sold; every other
\* position stays as it was, in its place.
C4_SellUpdatesPosition ==
    [][ (last'.op = "sell_stock" /\ last'.ret = "True")
        => LET symbol == Logged.symbol
               shares == Logged.shares
           IN  /\ SellStock(symbol, shares, Logged.price, None)
               /\ Held(symbol)
               /\ IF FEq(shares, Position(symbol).shares)
                  THEN portfolio'.stocks =
                          SelectSeq(portfolio.stocks,
                                    LAMBDA st : st.symbol # symbol)
                  ELSE portfolio'.stocks =
                          [k \in 1..Len(portfolio.stocks) |->
                              IF portfolio.stocks[k].symbol = symbol
                              THEN [symbol |-> symbol,
                                    shares |-> FSub(portfolio.stocks[k].shares,
                                                    shares),
                                    avg_price |-> portfolio.stocks[k].avg_price]
                              ELSE portfolio.stocks[k]]
      ]_vars

\* 2 of 5 AAPL shares have just been sold while MSFT is held too.
C4_Witness ==
    /\ last.op = "sell_stock" /\ last.ret = "True"
    /\ Len(portfolio.transactions) = 4
    /\ IsTrade(portfolio.transactions[2], "buy", "AAPL", 5, 100)
    /\ IsTrade(portfolio.transactions[4], "sell", "AAPL", 2, 150)
    /\ Len(portfolio.stocks) = 2
    /\ Held("MSFT")
    /\ Position("AAPL").shares = Num(3)
    /\ Position("AAPL").avg_price = Num(100)

\* The log of the spec's scenario, up to its k-th record.
ScenarioLog(k) ==
    LET tx == portfolio.transactions
    IN  /\ Len(tx) = k
        /\ tx[1].type = "cash_deposit" /\ tx[1].amount = Num(1000)
        /\ k >= 2 => IsTrade(tx[2], "buy", "AAPL", 2, 100)
        /\ k >= 3 => IsTrade(tx[3], "buy", "AAPL", 2, 200)
        /\ k >= 4 => IsTrade(tx[4], "sell", "AAPL", 4, 150)

\* The cash of a successful call: what it was, moved by exactly the amount.
CashStep ==
    /\ last'.op = "add_cash"
       => /\ AddCash(Logged.amount)
          /\ portfolio'.cash = FAdd(portfolio.cash, Logged.amount)
    /\ (last'.op = "withdraw_cash" /\ last'.ret = "True")
       => /\ WithdrawCash(Logged.amount)
          /\ portfolio'.cash = FSub(portfolio.cash, Logged.amount)
    /\ (last'.op = "buy_stock" /\ last'.ret = "True")
       => /\ BuyStock(Logged.symbol, Logged.shares, Logged.price, None)
          /\ portfolio'.cash = FSub(portfolio.cash,
                                    FMul(Logged.shares, Logged.price))
    /\ (last'.op = "sell_stock" /\ last'.ret = "True")
       => /\ SellStock(Logged.symbol, Logged.shares, Logged.price, None)
          /\ portfolio'.cash = FAdd(portfolio.cash,
                                    FMul(Logged.shares, Logged.price))

\* C5: a successful buy lowers cash by shares * price (merged or not), a
\* successful sell raises it by shares * price, a deposit raises it by the
\* amount, a withdrawal lowers it by the amount; and from cash 1000,
\* buy(AAPL, 2, 100), buy(AAPL, 2, 200), sell(AAPL, 4, 150) leave cash
\* 800, 400 and 1000.
C5_CashMovesByAmount ==
    /\ [][CashStep]_vars
    /\ [](ScenarioLog(1) => portfolio.cash = Num(1000))
    /\ [](ScenarioLog(2) => portfolio.cash = Num(800))
    /\ [](ScenarioLog(3) => portfolio.cash = Num(400))
    /\ [](ScenarioLog(4) => portfolio.cash = Num(1000))

\* The scenario has run to its end: the sale has closed the position.
C5_Witness ==
    /\ ScenarioLog(4)
    /\ last.op = "sell_stock" /\ last.ret = "True"
    /\ ~Held("AAPL")
    /\ portfolio.cash = Num(1000)

Succeeded ==
    \/ last'.op = "add_cash" /\ last'.ret = "None"
    \/ last'.op \in {"withdraw_cash", "buy_stock", "sell_stock"} /\ last'.ret = "True"

RecordKind(op) ==
    CASE op = "add_cash" -> "cash_deposit"
      [] op = "withdraw_cash" -> "cash_withdrawal"
      [] op = "buy_stock" -> "buy"
      [] op = "sell_stock" -> "sell"

\* C8: the log only grows at its end.  A successful add_cash, withdraw_cash,
\* buy_stock or sell_stock appends exactly one record, of its kind; any other
\* step appends none; the records already there keep their place and content.
C8_LogAppendOnly ==
    [][ LET old == portfolio.transactions
            new == portfolio'.transactions
        IN  /\ Len(new) >= Len(old)
            /\ \A k \in 1..Len(old) : new[k] = old[k]
            /\ IF Succeeded
               THEN /\ Len(new) = Len(old) + 1
                    /\ new[Len(new)].type = RecordKind(last'.op)
               ELSE new = old
      ]_vars

\* A deposit, a buy and a sell have been logged in that order.
C8_Witness ==
    /\ last.op = "sell_stock" /\ last.ret = "True"
    /\ Len(portfolio.transactions) = 3
    /\ portfolio.transactions[1].type = "cash_deposit"
    /\ portfolio.transactions[2].type = "buy"
    /\ portfolio.transactions[3].type = "sell"

\* C9: after every call that returns, loading the snapshot gives the
\* portfolio in memory, field for field; with no snapshot the load gives the
\* empty portfolio; and a call that changed the portfolio has written the
\* whole of it to the snapshot.
C9_SnapshotMatchesMemory ==
    ~Crashed
    => /\ load_portfolio(file) = portfolio
       /\ file = <<>> => portfolio = [stocks |-> <<>>, transactions |-> <<>>,
                                       cash |-> Num(0)]
       /\ portfolio.transactions # <<>> => file = <<json_dump(portfolio)>>

\* A withdrawal has been written while a position is held.
C9_Witness ==
    /\ last.op = "withdraw_cash" /\ last.ret = "True"
    /\ portfolio.stocks # <<>>
    /\ file # <<>>
    /\ load_portfolio(file) = portfolio

====
